---- MODULE Spec2Model ----
(***************************************************************************)
(* A model of kern/thread/synch.c: the counting semaphore (P, V), the      *)
(* sleep lock (lock_acquire, lock_release, lock_do_i_hold) and the         *)
(* condition variable (cv_wait, cv_signal, cv_broadcast), each with its    *)
(* create and destroy.                                                     *)
(*                                                                         *)
(* Every thread has a program counter pc[t].  Its values are named after   *)
(* the source line the thread executes next ("P_102" is the               *)
(* spinlock_acquire of line 102); "idle" is a thread outside synch.c.      *)
(* One action per function: the action takes the thread's next step in     *)
(* that function.  A failed KASSERT records the panic and halts the        *)
(* kernel: no action is enabled afterwards.                                *)
(*                                                                         *)
(* Spinlocks, wait channels, curthread and CURCPU_EXISTS are not defined   *)
(* in synch.c; they are modelled from their contract (see MODEL_MAP.json). *)
(***************************************************************************)
EXTENDS Integers, FiniteSets, TLC

\* ------------------------------------------------------------------ bounds

\* Number of kernel threads.
NumThreads == 3

\* Number of those threads that use the condition variable.
NumCvThreads == 2

\* Total number of calls into synch.c made by all threads together: on the
\* semaphore or the lock alone, and on the condition variable with its lock.
MaxCalls == 5

MaxCvCalls == 4

\* The same total where all NumThreads threads use the condition variable.
MaxWideCalls == 3

\* The same total where the threads also destroy the primitives.
MaxDestroyCalls == 3

\* Largest small initial count handed to sem_create (UINT_MAX is tried too).
MaxInit == 1

Threads == 1..NumThreads

CvThreads == {t \in Threads : t <= NumCvThreads}

\* No thread: a free spinlock's holder, and the NULL thread pointer.
NoThread == 0

NULL == 0

\* The thread that runs the kernel before the thread system is up.
BootThread == 1

VARIABLES
    pc,             \* pc[t]: where thread t is in synch.c
    ret,            \* ret[t]: "top", or "cv_wait" while cv_wait calls the lock
    in_interrupt,   \* curthread->t_in_interrupt of thread t
    calls,          \* calls into synch.c so far
    budget,         \* calls into synch.c the threads make at most
    panicked,       \* the failed assertion, or NoPanic
    curcpu_exists,  \* CURCPU_EXISTS(): thread identity is available
    heap,           \* heap[o]: the memory of primitive o and what its
                    \*   create returned
    sem_count,      \* sem->sem_count, an unsigned of 32 bits
    sem_lock,       \* holder of sem->sem_lock
    sem_wchan,      \* threads asleep on sem->sem_wchan
    flagLocked,     \* lock->flagLocked
    owner,          \* lock->owner
    lockProtect,    \* holder of lock->lockProtect
    lockWchan,      \* threads asleep on lock->lockWchan
    lockWchanLock,  \* holder of the lock taken by wchan_lock(lock->lockWchan)
    cvLock,         \* holder of cv->cvLock
    cvWchan,        \* threads asleep on cv->cvWchan
    x,              \* the callers' predicate, protected by the lock
    sem_init,       \* history: the initial_count given to sem_create
    p_returned,     \* history: number of P calls that have returned
    v_started,      \* history: number of V calls that have started
    holding,        \* history: holding[t], t is between the return of its
                    \*   lock_acquire (or cv_wait) and its lock_release
    misused,        \* history: some call broke the acquire/release pairing
    sigSeen         \* history: sigSeen[w], what thread w saw when it last
                    \*   called cv_signal or cv_broadcast

ctlVars == <<pc, ret, in_interrupt, calls, budget, panicked, curcpu_exists, heap>>

semVars == <<sem_count, sem_lock, sem_wchan>>

semHist == <<sem_init, p_returned, v_started>>

lockVars == <<flagLocked, owner, lockProtect, lockWchan, lockWchanLock>>

lockHist == <<holding, misused>>

cvVars == <<cvLock, cvWchan, x>>

cvHist == <<sigSeen>>

semAll == <<semVars, semHist>>

lockAll == <<lockVars, lockHist>>

cvAll == <<cvVars, cvHist>>

vars == <<ctlVars, semVars, semHist, lockVars, lockHist, cvVars, cvHist>>

\* ------------------------------------------------- unsigned 32-bit counters

\* TLC's integers stop at 2^31 - 1, so an unsigned of 32 bits is kept as two
\* limbs of 16 bits: the value is hi * 2^16 + lo.
Limb == 2 ^ 16

U32(n) == [hi |-> n \div Limb, lo |-> n % Limb]

UINT_MAX == [hi |-> Limb - 1, lo |-> Limb - 1]

U32IsZero(c) == c.hi = 0 /\ c.lo = 0

\* c + 1 in unsigned arithmetic: UINT_MAX + 1 is 0.
U32Inc(c) ==
    IF c.lo = Limb - 1
    THEN [hi |-> (c.hi + 1) % Limb, lo |-> 0]
    ELSE [hi |-> c.hi, lo |-> c.lo + 1]

\* c - 1 in unsigned arithmetic: 0 - 1 is UINT_MAX.
U32Dec(c) ==
    IF c.lo = 0
    THEN [hi |-> (c.hi - 1) % Limb, lo |-> Limb - 1]
    ELSE [hi |-> c.hi, lo |-> c.lo - 1]

\* ------------------------------------------------- the kernel's primitives

NoPanic == [by |-> NoThread, at |-> "none"]

\* A failed KASSERT of thread t at source place `at`: the kernel halts.
Panic(t, at) == panicked' = [by |-> t, at |-> at]

\* CURCPU_EXISTS() of current.h.
CURCPU_EXISTS == curcpu_exists

\* curthread as thread t reads it: NULL before the thread system is up.
curthread(t) == IF CURCPU_EXISTS THEN t ELSE NULL

\* The primitives of synch.c; the model has one object of each.
Objects == {"sem", "lock", "cv"}

\* A primitive nobody has created yet.  Of its heap record, obj is the
\* struct, str the name copy of kstrdup and wc the wait channel of
\* wchan_create, each "none", "live" or "freed"; name and wchan are what
\* the struct's name and wait-channel fields hold ("junk" is what kmalloc
\* left there); handle is what the caller has: "none", "making" during
\* create, "NULL" or "obj" from create, "gone" after destroy.
NoObject == [obj |-> "none", str |-> "none", wc |-> "none",
             name |-> "junk", wchan |-> "junk", handle |-> "none"]

\* A primitive as its create is meant to return it.
MadeObject == [obj |-> "live", str |-> "live", wc |-> "live",
               name |-> "str", wchan |-> "wc", handle |-> "obj"]

\* The caller has primitive o: its create returned it and nobody destroyed
\* it.
Usable(o) == heap[o].handle = "obj"

\* Some primitive has been destroyed.
Destroyed == \E o \in Objects : heap[o].handle = "gone"

\* What sem_destroy, lock_destroy and cv_destroy leave of a primitive with
\* heap record h: wchan_destroy frees the channel the wait-channel field
\* refers to, kfree what the name field refers to, and kfree the struct.
DestroyObject(h) ==
    [obj |-> "freed",
     str |-> IF h.name = "str" THEN "freed" ELSE h.str,
     wc |-> IF h.wchan = "wc" \/ h.name = "wc" THEN "freed" ELSE h.wc,
     name |-> h.name, wchan |-> h.wchan, handle |-> "gone"]

\* Thread t can take a step: the kernel has not panicked, and before the
\* thread system is up only the boot thread runs.  What threads do with the
\* memory of a destroyed primitive is not defined: the model stops there.
Live(t) ==
    /\ panicked = NoPanic
    /\ curcpu_exists \/ t = BootThread
    /\ ~Destroyed

\* spinlock_acquire(lk) returns once lk has no holder.
SpinFree(lk) == lk = NoThread

\* wchan_sleep puts the caller on the channel.
wchan_enqueue(wc, t) == wc \cup {t}

\* wchan_wakeone takes one sleeper off the channel, if there is one; which
\* one is not specified.
wchan_wakeone(wc) == IF wc = {} THEN {wc} ELSE {wc \ {w} : w \in wc}

\* wchan_wakeall takes every sleeper off the channel.
wchan_wakeall(wc) == {}

\* spinlock_cleanup(lk) asserts that nobody holds lk.
spinlock_cleanup(lk) == lk = NoThread

\* wchan_destroy(wc) asserts that nobody is asleep on wc.
wchan_destroy(wc) == wc = {}

Goto(t, label) == pc' = [pc EXCEPT ![t] = label]

\* A call into synch.c by an idle thread, in or out of an interrupt handler.
Call(t, intr) ==
    /\ pc[t] = "idle"
    /\ calls < budget
    /\ calls' = calls + 1
    /\ UNCHANGED budget
    /\ in_interrupt' = [in_interrupt EXCEPT ![t] = intr]

\* The return of a top-level call.
Return(t) ==
    /\ pc' = [pc EXCEPT ![t] = "idle"]
    /\ in_interrupt' = [in_interrupt EXCEPT ![t] = FALSE]

\* ---------------------------------------------------------------- semaphore

\* A P that goes to sleep whatever the count is.
P_must_wait_always(count) == TRUE

\* Line 103: the loop condition of P.
P_must_wait(count) == U32IsZero(count)

\* A P that leaves the count as it found it.
P_take_nothing(count) == count

\* Line 119: sem->sem_count--.
P_take(count) == U32Dec(count)

\* A V that adds two units.
V_give_two(count) == U32Inc(U32Inc(count))

\* Line 130: sem->sem_count++.
V_give(count) == U32Inc(count)

\* Lines 91-99: the entry of P and its interrupt-context assertion.
P_enter(t, intr) ==
    /\ Usable("sem")
    /\ Call(t, intr)
    /\ IF intr
       THEN Panic(t, "P:99") /\ UNCHANGED pc
       ELSE Goto(t, "P_102") /\ UNCHANGED panicked
    /\ UNCHANGED <<ret, curcpu_exists, heap, semVars, semHist, lockVars, lockHist,
                   cvVars, cvHist>>

\* Line 102: spinlock_acquire(&sem->sem_lock).
P_spin(t) ==
    /\ SpinFree(sem_lock)
    /\ sem_lock' = t
    /\ Goto(t, "P_103")
    /\ UNCHANGED <<ret, in_interrupt, calls, budget, panicked, curcpu_exists, heap,
                   sem_count, sem_wchan, semHist, lockVars, lockHist,
                   cvVars, cvHist>>

\* Lines 103-119: the loop test; then either wchan_sleep, which puts the
\* caller on the channel and releases the spinlock in one step, or the
\* assertion and the decrement.
P_test(t) ==
    /\ sem_lock = t
    /\ IF P_must_wait(sem_count)
       THEN /\ sem_wchan' = wchan_enqueue(sem_wchan, t)
            /\ sem_lock' = NoThread
            /\ Goto(t, "P_116")
            /\ UNCHANGED <<sem_count, panicked>>
       ELSE IF U32IsZero(sem_count)
            THEN Panic(t, "P:118") /\ UNCHANGED <<pc, semVars>>
            ELSE /\ sem_count' = P_take(sem_count)
                 /\ Goto(t, "P_120")
                 /\ UNCHANGED <<sem_lock, sem_wchan, panicked>>
    /\ UNCHANGED <<ret, in_interrupt, calls, budget, curcpu_exists, heap, semHist,
                   lockVars, lockHist, cvVars, cvHist>>

\* Line 116, second half: woken, wchan_sleep takes the spinlock again and
\* returns into the loop.
P_wake(t) ==
    /\ t \notin sem_wchan
    /\ SpinFree(sem_lock)
    /\ sem_lock' = t
    /\ Goto(t, "P_103")
    /\ UNCHANGED <<ret, in_interrupt, calls, budget, panicked, curcpu_exists, heap,
                   sem_count, sem_wchan, semHist, lockVars, lockHist,
                   cvVars, cvHist>>

\* Lines 120-121: spinlock_release and return.
P_exit(t) ==
    /\ sem_lock = t
    /\ sem_lock' = NoThread
    /\ p_returned' = p_returned + 1
    /\ Return(t)
    /\ UNCHANGED <<ret, calls, budget, panicked, curcpu_exists, heap, sem_count, sem_wchan,
                   sem_init, v_started, lockVars, lockHist, cvVars, cvHist>>

\* Lines 88-121.
P(t) ==
    /\ Live(t)
    /\ CASE pc[t] = "idle" -> \E intr \in BOOLEAN : P_enter(t, intr)
         [] pc[t] = "P_102" -> P_spin(t)
         [] pc[t] = "P_103" -> P_test(t)
         [] pc[t] = "P_116" -> P_wake(t)
         [] pc[t] = "P_120" -> P_exit(t)
         [] OTHER -> FALSE

\* Line 126: the entry of V; V may be called from an interrupt handler.
V_enter(t, intr) ==
    /\ Usable("sem")
    /\ Call(t, intr)
    /\ Goto(t, "V_128")
    /\ v_started' = v_started + 1
    /\ UNCHANGED <<ret, panicked, curcpu_exists, heap, semVars, sem_init,
                   p_returned, lockVars, lockHist, cvVars, cvHist>>

\* Line 128: spinlock_acquire(&sem->sem_lock).
V_spin(t) ==
    /\ SpinFree(sem_lock)
    /\ sem_lock' = t
    /\ Goto(t, "V_130")
    /\ UNCHANGED <<ret, in_interrupt, calls, budget, panicked, curcpu_exists, heap,
                   sem_count, sem_wchan, semHist, lockVars, lockHist,
                   cvVars, cvHist>>

\* Lines 130-132: the increment, its overflow assertion and wchan_wakeone.
V_post(t) ==
    /\ sem_lock = t
    /\ sem_count' = V_give(sem_count)
    /\ IF U32IsZero(sem_count')
       THEN Panic(t, "V:131") /\ UNCHANGED <<pc, sem_wchan>>
       ELSE /\ sem_wchan' \in wchan_wakeone(sem_wchan)
            /\ Goto(t, "V_134")
            /\ UNCHANGED panicked
    /\ UNCHANGED <<ret, in_interrupt, calls, budget, curcpu_exists, heap, sem_lock,
                   semHist, lockVars, lockHist, cvVars, cvHist>>

\* Lines 134-135: spinlock_release and return.
V_exit(t) ==
    /\ sem_lock = t
    /\ sem_lock' = NoThread
    /\ Return(t)
    /\ UNCHANGED <<ret, calls, budget, panicked, curcpu_exists, heap, sem_count, sem_wchan,
                   semHist, lockVars, lockHist, cvVars, cvHist>>

\* Lines 123-135.
V(t) ==
    /\ Live(t)
    /\ CASE pc[t] = "idle" -> \E intr \in BOOLEAN : V_enter(t, intr)
         [] pc[t] = "V_128" -> V_spin(t)
         [] pc[t] = "V_130" -> V_post(t)
         [] pc[t] = "V_134" -> V_exit(t)
         [] OTHER -> FALSE

\* The initial counts handed to sem_create.
InitialCounts == {U32(i) : i \in 0..MaxInit} \cup {UINT_MAX}

\* The call of sem_create(name, n); the model has one semaphore, so it is
\* called once.
sem_create_enter(t, n) ==
    /\ heap["sem"].handle = "none"
    /\ Call(t, FALSE)
    /\ heap' = [heap EXCEPT !["sem"].handle = "making"]
    /\ sem_init' = n
    /\ Goto(t, "sc_52")
    /\ UNCHANGED <<ret, panicked, curcpu_exists, semVars, p_returned,
                   v_started, lockAll, cvAll>>

\* Lines 52-55: kmalloc of the struct; NULL is returned when it fails.
sem_create_kmalloc(t, ok) ==
    /\ IF ok
       THEN /\ heap' = [heap EXCEPT !["sem"].obj = "live"]
            /\ Goto(t, "sc_57")
            /\ UNCHANGED in_interrupt
       ELSE /\ heap' = [heap EXCEPT !["sem"].handle = "NULL"]
            /\ Return(t)
    /\ UNCHANGED <<ret, calls, budget, panicked, curcpu_exists, semAll,
                   lockAll, cvAll>>

\* Lines 57-61: kstrdup of the name; when it fails the struct is freed.
sem_create_kstrdup(t, ok) ==
    /\ IF ok
       THEN /\ heap' = [heap EXCEPT !["sem"].str = "live", !["sem"].name = "str"]
            /\ Goto(t, "sc_63")
            /\ UNCHANGED in_interrupt
       ELSE /\ heap' = [heap EXCEPT !["sem"].name = "NULL",
                                    !["sem"].obj = "freed",
                                    !["sem"].handle = "NULL"]
            /\ Return(t)
    /\ UNCHANGED <<ret, calls, budget, panicked, curcpu_exists, semAll,
                   lockAll, cvAll>>

\* Lines 63-68: wchan_create into sem->sem_wchan; when it fails the name
\* copy and the struct are freed.
sem_create_wchan(t, ok) ==
    /\ IF ok
       THEN /\ heap' = [heap EXCEPT !["sem"].wc = "live", !["sem"].wchan = "wc"]
            /\ Goto(t, "sc_70")
            /\ UNCHANGED in_interrupt
       ELSE /\ heap' = [heap EXCEPT !["sem"].wchan = "NULL",
                                    !["sem"].str = "freed",
                                    !["sem"].obj = "freed",
                                    !["sem"].handle = "NULL"]
            /\ Return(t)
    /\ UNCHANGED <<ret, calls, budget, panicked, curcpu_exists, semAll,
                   lockAll, cvAll>>

\* Lines 70-73: spinlock_init, the count, and the return of the semaphore
\* with an empty wait channel.
sem_create_init(t) ==
    /\ sem_lock' = NoThread
    /\ sem_count' = sem_init
    /\ sem_wchan' = {}
    /\ heap' = [heap EXCEPT !["sem"].handle = "obj"]
    /\ Return(t)
    /\ UNCHANGED <<ret, calls, budget, panicked, curcpu_exists, semHist,
                   lockAll, cvAll>>

\* Lines 47-74.
sem_create(t) ==
    /\ Live(t)
    /\ CASE pc[t] = "idle" -> \E n \in InitialCounts : sem_create_enter(t, n)
         [] pc[t] = "sc_52" -> \E ok \in BOOLEAN : sem_create_kmalloc(t, ok)
         [] pc[t] = "sc_57" -> \E ok \in BOOLEAN : sem_create_kstrdup(t, ok)
         [] pc[t] = "sc_63" -> \E ok \in BOOLEAN : sem_create_wchan(t, ok)
         [] pc[t] = "sc_70" -> sem_create_init(t)
         [] OTHER -> FALSE

\* Line 79: the entry of sem_destroy.
sem_destroy_enter(t, intr) ==
    /\ Usable("sem")
    /\ Call(t, intr)
    /\ Goto(t, "sd_82")
    /\ UNCHANGED <<ret, panicked, curcpu_exists, heap, semAll, lockAll, cvAll>>

\* Line 82: spinlock_cleanup(&sem->sem_lock).
sem_destroy_cleanup(t) ==
    /\ IF spinlock_cleanup(sem_lock)
       THEN Goto(t, "sd_83") /\ UNCHANGED panicked
       ELSE Panic(t, "sem_destroy:82") /\ UNCHANGED pc
    /\ UNCHANGED <<ret, in_interrupt, calls, budget, curcpu_exists, heap, semAll,
                   lockAll, cvAll>>

\* Line 83: the channel sem_destroy hands to wchan_destroy.
sem_destroy_wchan == sem_wchan

\* Lines 83-86: wchan_destroy(sem->sem_wchan), the two kfree and the return.
sem_destroy_free(t) ==
    /\ IF wchan_destroy(sem_destroy_wchan)
       THEN /\ heap' = [heap EXCEPT !["sem"] = DestroyObject(@)]
            /\ Return(t)
            /\ UNCHANGED panicked
       ELSE Panic(t, "sem_destroy:83") /\ UNCHANGED <<pc, in_interrupt, heap>>
    /\ UNCHANGED <<ret, calls, budget, curcpu_exists, semAll, lockAll, cvAll>>

\* Lines 76-86.
sem_destroy(t) ==
    /\ Live(t)
    /\ CASE pc[t] = "idle" -> \E intr \in BOOLEAN : sem_destroy_enter(t, intr)
         [] pc[t] = "sd_82" -> sem_destroy_cleanup(t)
         [] pc[t] = "sd_83" -> sem_destroy_free(t)
         [] OTHER -> FALSE

\* --------------------------------------------------------------------- lock

\* Line 213: the loop condition of lock_acquire; flagLocked is 0 while the
\* lock is taken and 1 while it is free.
lock_is_taken(flag) == flag = 0

\* A lock_acquire that leaves the flag as it found it.
lock_take_nothing(flag) == flag

\* Line 225: lock->flagLocked = 0.
lock_take(flag) == 0

\* Line 206: the owner that makes the re-acquire assertion fail.
lock_is_mine(t) == owner = curthread(t)

\* Lines 228-235: the owner lock_acquire records.
lock_new_owner(t) == IF CURCPU_EXISTS THEN curthread(t) ELSE NULL

\* Line 257: KASSERT(lock->owner = curthread) assigns; the owner afterwards.
lock_release_owner(t) == curthread(t)

\* Line 260: lock->flagLocked++.
lock_release_flag(flag) == flag + 1

\* Lines 269-284: lock_do_i_hold as thread t would get it now.
lock_do_i_hold(t) == IF CURCPU_EXISTS THEN TRUE ELSE owner = curthread(t)

\* The call of lock_acquire by an idle thread.
lock_acquire_enter(t, intr) ==
    /\ Usable("lock")
    /\ Call(t, intr)
    /\ Goto(t, "la_201")
    /\ misused' = (misused \/ holding[t])
    /\ UNCHANGED <<ret, panicked, curcpu_exists, heap, semAll, lockVars, holding,
                   cvAll>>

\* Lines 198-201: the interrupt-context assertion.
lock_acquire_intr(t) ==
    /\ IF in_interrupt[t]
       THEN Panic(t, "lock_acquire:201") /\ UNCHANGED pc
       ELSE Goto(t, "la_204") /\ UNCHANGED panicked
    /\ UNCHANGED <<ret, in_interrupt, calls, budget, curcpu_exists, heap, semAll, lockAll,
                   cvAll>>

\* Lines 204-207: the re-acquire assertion, read without the spinlock.
lock_acquire_check(t) ==
    /\ IF CURCPU_EXISTS /\ lock_is_mine(t)
       THEN Panic(t, "lock_acquire:206") /\ UNCHANGED pc
       ELSE Goto(t, "la_210") /\ UNCHANGED panicked
    /\ UNCHANGED <<ret, in_interrupt, calls, budget, curcpu_exists, heap, semAll, lockAll,
                   cvAll>>

\* Lines 210 and 220: spinlock_acquire(&lock->lockProtect).
lock_acquire_spin(t) ==
    /\ SpinFree(lockProtect)
    /\ lockProtect' = t
    /\ Goto(t, "la_213")
    /\ UNCHANGED <<ret, in_interrupt, calls, budget, panicked, curcpu_exists, heap, semAll,
                   flagLocked, owner, lockWchan, lockWchanLock, lockHist,
                   cvAll>>

\* Lines 213 and 223-235: the loop test; when the lock is free, the
\* assertion, taking the lock and recording the owner.
lock_acquire_test(t) ==
    /\ lockProtect = t
    /\ IF lock_is_taken(flagLocked)
       THEN Goto(t, "la_215") /\ UNCHANGED <<flagLocked, owner, panicked>>
       ELSE IF ~(flagLocked > 0)
            THEN Panic(t, "lock_acquire:223") /\ UNCHANGED <<pc, flagLocked, owner>>
            ELSE /\ flagLocked' = lock_take(flagLocked)
                 /\ owner' = lock_new_owner(t)
                 /\ Goto(t, "la_238")
                 /\ UNCHANGED panicked
    /\ UNCHANGED <<ret, in_interrupt, calls, budget, curcpu_exists, heap, semAll,
                   lockProtect, lockWchan, lockWchanLock, lockHist, cvAll>>

\* Line 215: wchan_lock(lock->lockWchan).
lock_acquire_wchan_lock(t) ==
    /\ SpinFree(lockWchanLock)
    /\ lockWchanLock' = t
    /\ Goto(t, "la_216")
    /\ UNCHANGED <<ret, in_interrupt, calls, budget, panicked, curcpu_exists, heap, semAll,
                   flagLocked, owner, lockProtect, lockWchan, lockHist, cvAll>>

\* Line 216: spinlock_release(&lock->lockProtect).
lock_acquire_unspin(t) ==
    /\ lockProtect = t
    /\ lockProtect' = NoThread
    /\ Goto(t, "la_218")
    /\ UNCHANGED <<ret, in_interrupt, calls, budget, panicked, curcpu_exists, heap, semAll,
                   flagLocked, owner, lockWchan, lockWchanLock, lockHist,
                   cvAll>>

\* Line 218: wchan_sleep(lock->lockWchan) puts the caller on the locked
\* channel and unlocks the channel in one step.
lock_acquire_sleep(t) ==
    /\ lockWchanLock = t
    /\ lockWchan' = wchan_enqueue(lockWchan, t)
    /\ lockWchanLock' = NoThread
    /\ Goto(t, "la_219")
    /\ UNCHANGED <<ret, in_interrupt, calls, budget, panicked, curcpu_exists, heap, semAll,
                   flagLocked, owner, lockProtect, lockHist, cvAll>>

\* Line 218, second half: woken, wchan_sleep returns.
lock_acquire_wake(t) ==
    /\ t \notin lockWchan
    /\ Goto(t, "la_220")
    /\ UNCHANGED <<ret, in_interrupt, calls, budget, panicked, curcpu_exists, heap, semAll,
                   lockAll, cvAll>>

\* Lines 238-239: spinlock_release and return; a lock_acquire called by
\* cv_wait (line 361) returns from cv_wait as well.
lock_acquire_exit(t) ==
    /\ lockProtect = t
    /\ lockProtect' = NoThread
    /\ holding' = [holding EXCEPT ![t] = TRUE]
    /\ ret' = [ret EXCEPT ![t] = "top"]
    /\ Return(t)
    /\ UNCHANGED <<calls, budget, panicked, curcpu_exists, heap, semAll, flagLocked, owner,
                   lockWchan, lockWchanLock, misused, cvAll>>

\* Lines 192-239.
lock_acquire(t) ==
    /\ Live(t)
    /\ CASE pc[t] = "idle" -> \E intr \in BOOLEAN : lock_acquire_enter(t, intr)
         [] pc[t] = "la_201" -> lock_acquire_intr(t)
         [] pc[t] = "la_204" -> lock_acquire_check(t)
         [] pc[t] \in {"la_210", "la_220"} -> lock_acquire_spin(t)
         [] pc[t] = "la_213" -> lock_acquire_test(t)
         [] pc[t] = "la_215" -> lock_acquire_wchan_lock(t)
         [] pc[t] = "la_216" -> lock_acquire_unspin(t)
         [] pc[t] = "la_218" -> lock_acquire_sleep(t)
         [] pc[t] = "la_219" -> lock_acquire_wake(t)
         [] pc[t] = "la_238" -> lock_acquire_exit(t)
         [] OTHER -> FALSE

\* The call of lock_release by an idle thread.
lock_release_enter(t, intr) ==
    /\ Usable("lock")
    /\ Call(t, intr)
    /\ Goto(t, "lr_252")
    /\ misused' = (misused \/ ~holding[t])
    /\ holding' = [holding EXCEPT ![t] = FALSE]
    /\ UNCHANGED <<ret, panicked, curcpu_exists, heap, semAll, lockVars, cvAll>>

\* Line 252: spinlock_acquire(&lock->lockProtect).
lock_release_spin(t) ==
    /\ SpinFree(lockProtect)
    /\ lockProtect' = t
    /\ Goto(t, "lr_255")
    /\ UNCHANGED <<ret, in_interrupt, calls, budget, panicked, curcpu_exists, heap, semAll,
                   flagLocked, owner, lockWchan, lockWchanLock, lockHist,
                   cvAll>>

\* Lines 255-261: the owner assertion, which assigns the caller to
\* lock->owner and fails only for a NULL curthread, then the increment and
\* its assertion.
lock_release_free(t) ==
    /\ lockProtect = t
    /\ owner' = IF CURCPU_EXISTS THEN lock_release_owner(t) ELSE owner
    /\ IF CURCPU_EXISTS /\ owner' = NULL
       THEN Panic(t, "lock_release:257") /\ UNCHANGED <<pc, flagLocked>>
       ELSE /\ flagLocked' = lock_release_flag(flagLocked)
            /\ IF ~(flagLocked' > 0)
               THEN Panic(t, "lock_release:261") /\ UNCHANGED pc
               ELSE Goto(t, "lr_262") /\ UNCHANGED panicked
    /\ UNCHANGED <<ret, in_interrupt, calls, budget, curcpu_exists, heap, semAll,
                   lockProtect, lockWchan, lockWchanLock, lockHist, cvAll>>

\* A lock_release that wakes nobody.
lock_release_wake_nobody(t) ==
    /\ lockProtect = t
    /\ Goto(t, "lr_264")
    /\ UNCHANGED <<ret, in_interrupt, calls, budget, panicked, curcpu_exists, heap, semAll,
                   lockAll, cvAll>>

\* Line 262: wchan_wakeone(lock->lockWchan, &lock->lockProtect); the wake
\* waits for a channel locked by wchan_lock.
lock_release_wake(t) ==
    /\ lockProtect = t
    /\ SpinFree(lockWchanLock)
    /\ lockWchan' \in wchan_wakeone(lockWchan)
    /\ Goto(t, "lr_264")
    /\ UNCHANGED <<ret, in_interrupt, calls, budget, panicked, curcpu_exists, heap, semAll,
                   flagLocked, owner, lockProtect, lockWchanLock, lockHist,
                   cvAll>>

\* Lines 264-267: spinlock_release and return, to the caller or into
\* cv_wait (line 352).
lock_release_exit(t) ==
    /\ lockProtect = t
    /\ lockProtect' = NoThread
    /\ IF ret[t] = "cv_wait"
       THEN Goto(t, "cw_355") /\ UNCHANGED in_interrupt
       ELSE Return(t)
    /\ UNCHANGED <<ret, calls, budget, panicked, curcpu_exists, heap, semAll, flagLocked,
                   owner, lockWchan, lockWchanLock, lockHist, cvAll>>

\* Lines 241-267.
lock_release(t) ==
    /\ Live(t)
    /\ CASE pc[t] = "idle" -> \E intr \in BOOLEAN : lock_release_enter(t, intr)
         [] pc[t] = "lr_252" -> lock_release_spin(t)
         [] pc[t] = "lr_255" -> lock_release_free(t)
         [] pc[t] = "lr_262" -> lock_release_wake(t)
         [] pc[t] = "lr_264" -> lock_release_exit(t)
         [] OTHER -> FALSE

\* A lock_create that leaves the new lock taken.
lock_create_fields_taken == [flagLocked |-> 0, owner |-> NULL]

\* Lines 171-172: lock->flagLocked = 1 and lock->owner = NULL.
lock_create_fields == [flagLocked |-> 1, owner |-> NULL]

\* The call of lock_create(name); the model has one lock, so it is called
\* once.
lock_create_enter(t) ==
    /\ heap["lock"].handle = "none"
    /\ Call(t, FALSE)
    /\ heap' = [heap EXCEPT !["lock"].handle = "making"]
    /\ Goto(t, "lc_146")
    /\ UNCHANGED <<ret, panicked, curcpu_exists, semAll, lockAll, cvAll>>

\* Lines 146-149: kmalloc of the struct; NULL is returned when it fails.
lock_create_kmalloc(t, ok) ==
    /\ IF ok
       THEN /\ heap' = [heap EXCEPT !["lock"].obj = "live"]
            /\ Goto(t, "lc_151")
            /\ UNCHANGED in_interrupt
       ELSE /\ heap' = [heap EXCEPT !["lock"].handle = "NULL"]
            /\ Return(t)
    /\ UNCHANGED <<ret, calls, budget, panicked, curcpu_exists, semAll,
                   lockAll, cvAll>>

\* Lines 151-155: kstrdup of the name; when it fails the struct is freed.
lock_create_kstrdup(t, ok) ==
    /\ IF ok
       THEN /\ heap' = [heap EXCEPT !["lock"].str = "live", !["lock"].name = "str"]
            /\ Goto(t, "lc_159")
            /\ UNCHANGED in_interrupt
       ELSE /\ heap' = [heap EXCEPT !["lock"].name = "NULL",
                                    !["lock"].obj = "freed",
                                    !["lock"].handle = "NULL"]
            /\ Return(t)
    /\ UNCHANGED <<ret, calls, budget, panicked, curcpu_exists, semAll,
                   lockAll, cvAll>>

\* Lines 159-165: wchan_create into lock->lockWchan; when it fails the
\* name copy and the struct are freed.
lock_create_wchan(t, ok) ==
    /\ IF ok
       THEN /\ heap' = [heap EXCEPT !["lock"].wc = "live", !["lock"].wchan = "wc"]
            /\ Goto(t, "lc_168")
            /\ UNCHANGED in_interrupt
       ELSE /\ heap' = [heap EXCEPT !["lock"].wchan = "NULL",
                                    !["lock"].str = "freed",
                                    !["lock"].obj = "freed",
                                    !["lock"].handle = "NULL"]
            /\ Return(t)
    /\ UNCHANGED <<ret, calls, budget, panicked, curcpu_exists, semAll,
                   lockAll, cvAll>>

\* Lines 168-174: spinlock_initialize, the flag and the owner, and the
\* return of the lock with an empty wait channel.
lock_create_init(t) ==
    /\ lockProtect' = NoThread
    /\ flagLocked' = lock_create_fields.flagLocked
    /\ owner' = lock_create_fields.owner
    /\ lockWchan' = {}
    /\ lockWchanLock' = NoThread
    /\ heap' = [heap EXCEPT !["lock"].handle = "obj"]
    /\ Return(t)
    /\ UNCHANGED <<ret, calls, budget, panicked, curcpu_exists, semAll,
                   lockHist, cvAll>>

\* Lines 141-175.
lock_create(t) ==
    /\ Live(t)
    /\ CASE pc[t] = "idle" -> lock_create_enter(t)
         [] pc[t] = "lc_146" -> \E ok \in BOOLEAN : lock_create_kmalloc(t, ok)
         [] pc[t] = "lc_151" -> \E ok \in BOOLEAN : lock_create_kstrdup(t, ok)
         [] pc[t] = "lc_159" -> \E ok \in BOOLEAN : lock_create_wchan(t, ok)
         [] pc[t] = "lc_168" -> lock_create_init(t)
         [] OTHER -> FALSE

\* Line 180: the entry of lock_destroy.
lock_destroy_enter(t, intr) ==
    /\ Usable("lock")
    /\ Call(t, intr)
    /\ Goto(t, "ld_185")
    /\ UNCHANGED <<ret, panicked, curcpu_exists, heap, semAll, lockAll, cvAll>>

\* Line 185: spinlock_cleanup(&lock->lockProtect).
lock_destroy_cleanup(t) ==
    /\ IF spinlock_cleanup(lockProtect)
       THEN Goto(t, "ld_186") /\ UNCHANGED panicked
       ELSE Panic(t, "lock_destroy:185") /\ UNCHANGED pc
    /\ UNCHANGED <<ret, in_interrupt, calls, budget, curcpu_exists, heap, semAll,
                   lockAll, cvAll>>

\* A lock_destroy that hands the semaphore's channel to wchan_destroy.
lock_destroy_wchan_of_sem == sem_wchan

\* Line 186: the channel lock_destroy hands to wchan_destroy.
lock_destroy_wchan == lockWchan

\* Lines 186-190: wchan_destroy(lock->lockWchan), the two kfree and the
\* return; neither flagLocked nor owner is looked at.
lock_destroy_free(t) ==
    /\ IF wchan_destroy(lock_destroy_wchan)
       THEN /\ heap' = [heap EXCEPT !["lock"] = DestroyObject(@)]
            /\ Return(t)
            /\ UNCHANGED panicked
       ELSE Panic(t, "lock_destroy:186") /\ UNCHANGED <<pc, in_interrupt, heap>>
    /\ UNCHANGED <<ret, calls, budget, curcpu_exists, semAll, lockAll, cvAll>>

\* Lines 177-190.
lock_destroy(t) ==
    /\ Live(t)
    /\ CASE pc[t] = "idle" -> \E intr \in BOOLEAN : lock_destroy_enter(t, intr)
         [] pc[t] = "ld_185" -> lock_destroy_cleanup(t)
         [] pc[t] = "ld_186" -> lock_destroy_free(t)
         [] OTHER -> FALSE

\* ------------------------------------------------------- condition variable

\* The threads inside cv_wait: called, not yet returned.
InCvWait(t) == pc[t] \in {"cw_349", "cw_355", "cw_356", "cw_358"} \/ ret[t] = "cv_wait"

\* What a thread calling cv_signal or cv_broadcast finds: the threads
\* asleep on the channel and the threads inside cv_wait.
SeenAtCall == [done |-> FALSE, queued |-> cvWchan,
               waiting |-> {u \in Threads : InCvWait(u)}]

\* Lines 345-346: the entry of cv_wait; nothing checks the interrupt
\* context or that the caller holds the lock.
cv_wait_enter(t, intr) ==
    /\ Usable("cv") /\ Usable("lock")
    /\ Call(t, intr)
    /\ Goto(t, "cw_349")
    /\ misused' = (misused \/ ~holding[t])
    /\ sigSeen' = [w \in Threads |-> [sigSeen[w] EXCEPT !.waiting = @ \ {t}]]
    /\ UNCHANGED <<ret, panicked, curcpu_exists, heap, semAll, lockVars, holding,
                   cvVars>>

\* Lines 349-352: spinlock_acquire(&cv->cvLock), then the call of
\* lock_release(lock).
cv_wait_spin(t) ==
    /\ SpinFree(cvLock)
    /\ cvLock' = t
    /\ ret' = [ret EXCEPT ![t] = "cv_wait"]
    /\ holding' = [holding EXCEPT ![t] = FALSE]
    /\ Goto(t, "lr_252")
    /\ UNCHANGED <<in_interrupt, calls, budget, panicked, curcpu_exists, heap, semAll,
                   lockVars, misused, cvWchan, x, cvHist>>

\* A cv_wait whose wchan_sleep releases cv->cvLock as it goes to sleep.
cv_wait_sleep_released(t) ==
    /\ cvLock = t
    /\ cvWchan' = wchan_enqueue(cvWchan, t)
    /\ cvLock' = NoThread
    /\ sigSeen' = [w \in Threads |-> [sigSeen[w] EXCEPT !.queued = @ \ {t}]]
    /\ Goto(t, "cw_356")
    /\ UNCHANGED <<ret, in_interrupt, calls, budget, panicked, curcpu_exists, heap,
                   semAll, lockAll, x>>

\* Line 355: wchan_sleep(cv->cvWchan) names no spinlock to release and the
\* channel was not locked by wchan_lock.  Either the wait channel refuses
\* (it asserts that the channel is locked), or the caller goes to sleep on
\* the channel still holding cv->cvLock.
cv_wait_sleep(t) ==
    /\ \/ /\ Panic(t, "cv_wait:355")
          /\ UNCHANGED <<pc, cvWchan, sigSeen>>
       \/ /\ cvWchan' = wchan_enqueue(cvWchan, t)
          /\ sigSeen' = [w \in Threads |-> [sigSeen[w] EXCEPT !.queued = @ \ {t}]]
          /\ Goto(t, "cw_356")
          /\ UNCHANGED panicked
    /\ UNCHANGED <<ret, in_interrupt, calls, budget, curcpu_exists, heap, semAll, lockAll,
                   cvLock, x>>

\* Line 355, second half: woken, wchan_sleep returns.
cv_wait_wake(t) ==
    /\ t \notin cvWchan
    /\ Goto(t, "cw_358")
    /\ UNCHANGED <<ret, in_interrupt, calls, budget, panicked, curcpu_exists, heap, semAll,
                   lockAll, cvAll>>

\* Lines 358-361: spinlock_release(&cv->cvLock), then the call of
\* lock_acquire(lock).
cv_wait_unspin(t) ==
    /\ cvLock = t
    /\ cvLock' = NoThread
    /\ Goto(t, "la_201")
    /\ UNCHANGED <<ret, in_interrupt, calls, budget, panicked, curcpu_exists, heap, semAll,
                   lockAll, cvWchan, x, cvHist>>

\* Lines 338-362; the steps inside lock_release and lock_acquire are theirs.
cv_wait(t) ==
    /\ Live(t)
    /\ CASE pc[t] = "idle" -> \E intr \in BOOLEAN : cv_wait_enter(t, intr)
         [] pc[t] = "cw_349" -> cv_wait_spin(t)
         [] pc[t] = "cw_355" -> cv_wait_sleep(t)
         [] pc[t] = "cw_356" -> cv_wait_wake(t)
         [] pc[t] = "cw_358" -> cv_wait_unspin(t)
         [] OTHER -> FALSE

\* Lines 371-372: the entry of cv_signal; the lock is not looked at.
cv_signal_enter(t, intr) ==
    /\ Usable("cv") /\ Usable("lock")
    /\ Call(t, intr)
    /\ Goto(t, "cs_375")
    /\ sigSeen' = [sigSeen EXCEPT ![t] = SeenAtCall]
    /\ UNCHANGED <<ret, panicked, curcpu_exists, heap, semAll, lockAll, cvVars>>

\* Line 375: spinlock_acquire(&cv->cvLock).
cv_signal_spin(t) ==
    /\ SpinFree(cvLock)
    /\ cvLock' = t
    /\ Goto(t, "cs_377")
    /\ UNCHANGED <<ret, in_interrupt, calls, budget, panicked, curcpu_exists, heap, semAll,
                   lockAll, cvWchan, x, cvHist>>

\* Line 377: wchan_wakeone(cv->cvWchan, &cv->cvLock).
cv_signal_wake(t) ==
    /\ cvLock = t
    /\ cvWchan' \in wchan_wakeone(cvWchan)
    /\ Goto(t, "cs_380")
    /\ UNCHANGED <<ret, in_interrupt, calls, budget, panicked, curcpu_exists, heap, semAll,
                   lockAll, cvLock, x, cvHist>>

\* Lines 380-381: spinlock_release and return.
cv_signal_exit(t) ==
    /\ cvLock = t
    /\ cvLock' = NoThread
    /\ sigSeen' = [sigSeen EXCEPT ![t].done = TRUE]
    /\ Return(t)
    /\ UNCHANGED <<ret, calls, budget, panicked, curcpu_exists, heap, semAll, lockAll,
                   cvWchan, x>>

\* Lines 364-381.
cv_signal(t) ==
    /\ Live(t)
    /\ CASE pc[t] = "idle" -> \E intr \in BOOLEAN : cv_signal_enter(t, intr)
         [] pc[t] = "cs_375" -> cv_signal_spin(t)
         [] pc[t] = "cs_377" -> cv_signal_wake(t)
         [] pc[t] = "cs_380" -> cv_signal_exit(t)
         [] OTHER -> FALSE

\* Lines 389-390: the entry of cv_broadcast; the lock is not looked at.
cv_broadcast_enter(t, intr) ==
    /\ Usable("cv") /\ Usable("lock")
    /\ Call(t, intr)
    /\ Goto(t, "cb_393")
    /\ sigSeen' = [sigSeen EXCEPT ![t] = SeenAtCall]
    /\ UNCHANGED <<ret, panicked, curcpu_exists, heap, semAll, lockAll, cvVars>>

\* Line 393: spinlock_acquire(&cv->cvLock).
cv_broadcast_spin(t) ==
    /\ SpinFree(cvLock)
    /\ cvLock' = t
    /\ Goto(t, "cb_395")
    /\ UNCHANGED <<ret, in_interrupt, calls, budget, panicked, curcpu_exists, heap, semAll,
                   lockAll, cvWchan, x, cvHist>>

\* Line 395: wchan_wakeall(cv->cvWchan, &cv->cvLock).
cv_broadcast_wake(t) ==
    /\ cvLock = t
    /\ cvWchan' = wchan_wakeall(cvWchan)
    /\ Goto(t, "cb_398")
    /\ UNCHANGED <<ret, in_interrupt, calls, budget, panicked, curcpu_exists, heap, semAll,
                   lockAll, cvLock, x, cvHist>>

\* Lines 398-400: spinlock_release and return.
cv_broadcast_exit(t) ==
    /\ cvLock = t
    /\ cvLock' = NoThread
    /\ sigSeen' = [sigSeen EXCEPT ![t].done = TRUE]
    /\ Return(t)
    /\ UNCHANGED <<ret, calls, budget, panicked, curcpu_exists, heap, semAll, lockAll,
                   cvWchan, x>>

\* Lines 383-400.
cv_broadcast(t) ==
    /\ Live(t)
    /\ CASE pc[t] = "idle" -> \E intr \in BOOLEAN : cv_broadcast_enter(t, intr)
         [] pc[t] = "cb_393" -> cv_broadcast_spin(t)
         [] pc[t] = "cb_395" -> cv_broadcast_wake(t)
         [] pc[t] = "cb_398" -> cv_broadcast_exit(t)
         [] OTHER -> FALSE

\* The call of cv_create(name); the model has one condition variable, so it
\* is called once.
cv_create_enter(t) ==
    /\ heap["cv"].handle = "none"
    /\ Call(t, FALSE)
    /\ heap' = [heap EXCEPT !["cv"].handle = "making"]
    /\ Goto(t, "cc_296")
    /\ UNCHANGED <<ret, panicked, curcpu_exists, semAll, lockAll, cvAll>>

\* Lines 296-299: kmalloc of the struct; NULL is returned when it fails.
cv_create_kmalloc(t, ok) ==
    /\ IF ok
       THEN /\ heap' = [heap EXCEPT !["cv"].obj = "live"]
            /\ Goto(t, "cc_301")
            /\ UNCHANGED in_interrupt
       ELSE /\ heap' = [heap EXCEPT !["cv"].handle = "NULL"]
            /\ Return(t)
    /\ UNCHANGED <<ret, calls, budget, panicked, curcpu_exists, semAll,
                   lockAll, cvAll>>

\* Lines 301-305: kstrdup of the name; when it fails the struct is freed.
cv_create_kstrdup(t, ok) ==
    /\ IF ok
       THEN /\ heap' = [heap EXCEPT !["cv"].str = "live", !["cv"].name = "str"]
            /\ Goto(t, "cc_309")
            /\ UNCHANGED in_interrupt
       ELSE /\ heap' = [heap EXCEPT !["cv"].name = "NULL",
                                    !["cv"].obj = "freed",
                                    !["cv"].handle = "NULL"]
            /\ Return(t)
    /\ UNCHANGED <<ret, calls, budget, panicked, curcpu_exists, semAll,
                   lockAll, cvAll>>

\* What kfree(p) leaves of heap record h, p being what a field holds.
kfree(h, p) ==
    CASE p = "str" -> [h EXCEPT !.str = "freed"]
      [] p = "wc" -> [h EXCEPT !.wc = "freed"]
      [] OTHER -> h

\* Lines 309-315: cv->cv_name = wchan_create(cv->cv_name) stores the new
\* channel (or NULL) in the name field; the test of line 310 reads
\* cv->cvWchan, which nothing has written: it reads as NULL or as something
\* else.  When it reads as NULL, what the name field holds and the struct
\* are freed and NULL is returned.
cv_create_wchan(t, ok, reads_null) ==
    /\ LET h == IF ok
                THEN [heap["cv"] EXCEPT !.wc = "live", !.name = "wc"]
                ELSE [heap["cv"] EXCEPT !.name = "NULL"]
       IN  IF reads_null
           THEN /\ heap' = [heap EXCEPT !["cv"] =
                               [kfree(h, h.name) EXCEPT !.obj = "freed",
                                                       !.handle = "NULL"]]
                /\ Return(t)
           ELSE /\ heap' = [heap EXCEPT !["cv"] = h]
                /\ Goto(t, "cc_317")
                /\ UNCHANGED in_interrupt
    /\ UNCHANGED <<ret, calls, budget, panicked, curcpu_exists, semAll,
                   lockAll, cvAll>>

\* Lines 317-320: spinlock_init and the return of the condition variable.
cv_create_init(t) ==
    /\ cvLock' = NoThread
    /\ heap' = [heap EXCEPT !["cv"].handle = "obj"]
    /\ Return(t)
    /\ UNCHANGED <<ret, calls, budget, panicked, curcpu_exists, semAll,
                   lockAll, cvWchan, x, cvHist>>

\* Lines 291-321.
cv_create(t) ==
    /\ Live(t)
    /\ CASE pc[t] = "idle" -> cv_create_enter(t)
         [] pc[t] = "cc_296" -> \E ok \in BOOLEAN : cv_create_kmalloc(t, ok)
         [] pc[t] = "cc_301" -> \E ok \in BOOLEAN : cv_create_kstrdup(t, ok)
         [] pc[t] = "cc_309" ->
                \E ok, reads_null \in BOOLEAN : cv_create_wchan(t, ok, reads_null)
         [] pc[t] = "cc_317" -> cv_create_init(t)
         [] OTHER -> FALSE

\* Line 326: the entry of cv_destroy.
cv_destroy_enter(t, intr) ==
    /\ Usable("cv")
    /\ Call(t, intr)
    /\ Goto(t, "cd_331")
    /\ UNCHANGED <<ret, panicked, curcpu_exists, heap, semAll, lockAll, cvAll>>

\* Line 331: spinlock_cleanup(&cv->cvLock).
cv_destroy_cleanup(t) ==
    /\ IF spinlock_cleanup(cvLock)
       THEN Goto(t, "cd_332") /\ UNCHANGED panicked
       ELSE Panic(t, "cv_destroy:331") /\ UNCHANGED pc
    /\ UNCHANGED <<ret, in_interrupt, calls, budget, curcpu_exists, heap, semAll,
                   lockAll, cvAll>>

\* Line 332: the channel cv_destroy hands to wchan_destroy.
cv_destroy_wchan == cvWchan

\* Lines 332-336: wchan_destroy(cv->cvWchan), the two kfree and the return.
cv_destroy_free(t) ==
    /\ IF wchan_destroy(cv_destroy_wchan)
       THEN /\ heap' = [heap EXCEPT !["cv"] = DestroyObject(@)]
            /\ Return(t)
            /\ UNCHANGED panicked
       ELSE Panic(t, "cv_destroy:332") /\ UNCHANGED <<pc, in_interrupt, heap>>
    /\ UNCHANGED <<ret, calls, budget, curcpu_exists, semAll, lockAll, cvAll>>

\* Lines 323-336.
cv_destroy(t) ==
    /\ Live(t)
    /\ CASE pc[t] = "idle" -> \E intr \in BOOLEAN : cv_destroy_enter(t, intr)
         [] pc[t] = "cd_331" -> cv_destroy_cleanup(t)
         [] pc[t] = "cd_332" -> cv_destroy_free(t)
         [] OTHER -> FALSE

\* The monitor's client: a thread that holds the lock makes the awaited
\* predicate true (x = 1).
set_predicate(t) ==
    /\ Live(t)
    /\ pc[t] = "idle"
    /\ holding[t]
    /\ x = 0
    /\ x' = 1
    /\ UNCHANGED <<ctlVars, semAll, lockAll, cvLock, cvWchan, cvHist>>

\* ------------------------------------------------------------ specifications

\* The state with the three primitives made, every thread outside synch.c:
\* after sem_create(name, n) and lock_create(name), and with a condition
\* variable whose cvWchan refers to its wait channel, as cv_wait, cv_signal
\* and cv_broadcast take it to be (cv_create itself leaves cvWchan
\* unwritten, see cv_create_wchan).
InitObjects(n, b) ==
    /\ pc = [t \in Threads |-> "idle"]
    /\ ret = [t \in Threads |-> "top"]
    /\ in_interrupt = [t \in Threads |-> FALSE]
    /\ calls = 0
    /\ budget = b
    /\ panicked = NoPanic
    /\ curcpu_exists \in BOOLEAN
    /\ heap = [o \in Objects |-> MadeObject]
    /\ sem_count = n
    /\ sem_lock = NoThread
    /\ sem_wchan = {}
    /\ sem_init = n
    /\ p_returned = 0
    /\ v_started = 0
    /\ flagLocked = lock_create_fields.flagLocked
    /\ owner = lock_create_fields.owner
    /\ lockProtect = NoThread
    /\ lockWchan = {}
    /\ lockWchanLock = NoThread
    /\ holding = [t \in Threads |-> FALSE]
    /\ misused = FALSE
    /\ cvLock = NoThread
    /\ cvWchan = {}
    /\ x = 0
    /\ sigSeen = [t \in Threads |-> [done |-> FALSE, queued |-> {}, waiting |-> {}]]

\* The state before any create: no primitive exists, and the memory that
\* kmalloc will hand out for the lock's flag and owner holds anything.
InitBlank(b) ==
    /\ pc = [t \in Threads |-> "idle"]
    /\ ret = [t \in Threads |-> "top"]
    /\ in_interrupt = [t \in Threads |-> FALSE]
    /\ calls = 0
    /\ budget = b
    /\ panicked = NoPanic
    /\ curcpu_exists \in BOOLEAN
    /\ heap = [o \in Objects |-> NoObject]
    /\ sem_count = U32(0)
    /\ sem_lock = NoThread
    /\ sem_wchan = {}
    /\ sem_init = U32(0)
    /\ p_returned = 0
    /\ v_started = 0
    /\ flagLocked \in {0, 1}
    /\ owner \in {NULL} \cup Threads
    /\ lockProtect = NoThread
    /\ lockWchan = {}
    /\ lockWchanLock = NoThread
    /\ holding = [t \in Threads |-> FALSE]
    /\ misused = FALSE
    /\ cvLock = NoThread
    /\ cvWchan = {}
    /\ x = 0
    /\ sigSeen = [t \in Threads |-> [done |-> FALSE, queued |-> {}, waiting |-> {}]]

InitCreate == InitBlank(MaxCalls)

NextCreate == \E t \in Threads : sem_create(t) \/ lock_create(t) \/ cv_create(t)

\* Threads creating the three primitives, with allocations that may fail.
SpecCreate == InitCreate /\ [][NextCreate]_vars

\* sem_create with a small count, or with the largest one.
InitSem == \E n \in {U32(i) : i \in 0..MaxInit} \cup {UINT_MAX} : InitObjects(n, MaxCalls)

NextSem == \E t \in Threads : P(t) \/ V(t)

\* Threads calling P and V on one semaphore.
SpecSem == InitSem /\ [][NextSem]_vars

\* A step of thread t inside P or V.  The scheduler runs every runnable
\* thread again and again; nothing makes an idle thread call into synch.c.
AdvanceSem(t) == pc[t] # "idle" /\ (P(t) \/ V(t))

\* SpecSem under that scheduling.
FairSpecSem == SpecSem /\ \A t \in Threads : WF_vars(AdvanceSem(t))

InitLock == InitObjects(U32(0), MaxCalls)

NextLock == \E t \in Threads : lock_acquire(t) \/ lock_release(t)

\* Threads calling lock_acquire and lock_release on one lock, in any order.
SpecLock == InitLock /\ [][NextLock]_vars

InitLockFew == InitObjects(U32(0), MaxCvCalls)

NextLockFew == \E t \in CvThreads : lock_acquire(t) \/ lock_release(t)

\* As SpecLock, with fewer threads and calls.
SpecLockFew == InitLockFew /\ [][NextLockFew]_vars

\* A step of thread t inside lock_acquire or lock_release.
AdvanceLock(t) == pc[t] # "idle" /\ (lock_acquire(t) \/ lock_release(t))

\* SpecLockFew under the scheduling of FairSpecSem.
FairSpecLock == SpecLockFew /\ \A t \in CvThreads : WF_vars(AdvanceLock(t))

InitLockLife == InitBlank(MaxCalls)

NextLockLife ==
    \E t \in Threads : lock_create(t) \/ lock_acquire(t) \/ lock_release(t)

\* Threads creating the lock and then calling lock_acquire and
\* lock_release on it.
SpecLockLife == InitLockLife /\ [][NextLockLife]_vars

InitCV == InitObjects(U32(0), MaxCvCalls)

NextCV ==
    \E t \in CvThreads :
        \/ lock_acquire(t)
        \/ lock_release(t)
        \/ cv_wait(t)
        \/ cv_signal(t)
        \/ cv_broadcast(t)
        \/ set_predicate(t)

\* Threads using one condition variable with one lock, in any order.
SpecCV == InitCV /\ [][NextCV]_vars

\* A step of thread t inside a function of synch.c.  The scheduler runs
\* every runnable thread again and again, and a thread spinning on a
\* spinlock gets it once it is free for good; nothing makes an idle thread
\* call into synch.c.
AdvanceCV(t) ==
    /\ pc[t] # "idle"
    /\ \/ lock_acquire(t)
       \/ lock_release(t)
       \/ cv_wait(t)
       \/ cv_signal(t)
       \/ cv_broadcast(t)

\* SpecCV under that scheduling.
FairSpecCV == SpecCV /\ \A t \in CvThreads : WF_vars(AdvanceCV(t))

InitCVWide == InitObjects(U32(0), MaxWideCalls)

NextCVWide ==
    \E t \in Threads :
        \/ lock_acquire(t)
        \/ lock_release(t)
        \/ cv_wait(t)
        \/ cv_signal(t)
        \/ cv_broadcast(t)

\* As SpecCV, with every thread using the condition variable, fewer calls
\* and without the client's predicate.
SpecCVWide == InitCVWide /\ [][NextCVWide]_vars

InitDestroy == InitObjects(U32(0), MaxDestroyCalls)

NextDestroy ==
    \E t \in CvThreads :
        \/ P(t)
        \/ V(t)
        \/ sem_destroy(t)
        \/ lock_acquire(t)
        \/ lock_release(t)
        \/ lock_destroy(t)
        \/ cv_wait(t)
        \/ cv_signal(t)
        \/ cv_destroy(t)

\* Threads using the three primitives and destroying them, in any order.
SpecDestroy == InitDestroy /\ [][NextDestroy]_vars

\* -------------------------------------------------------------- properties

\* The threads that exist: all of them once the thread system is up.
Running == {t \in Threads : curcpu_exists \/ t = BootThread}

Holders == {t \in Threads : holding[t]}

\* C1: while every thread pairs lock_acquire with a later lock_release, at
\* most one thread is between the return of its lock_acquire and its
\* lock_release; so no lock_acquire returns while another thread holds the
\* lock.
C1_MutualExclusion == ~misused => Cardinality(Holders) <= 1

\* C1's case: one thread holds the lock and another one, which called
\* lock_acquire meanwhile, is asleep on the lock's wait channel.
C1_Witness ==
    /\ ~misused
    /\ \E a, b \in Threads :
        a # b /\ holding[a] /\ owner = a /\ b \in lockWchan /\ pc[b] = "la_219"

\* The P calls that have taken a unit, returned or about to.
P_taken == p_returned + Cardinality({t \in Threads : pc[t] = "P_120"})

\* The V calls that have given their unit.
V_given == v_started - Cardinality({t \in Threads : pc[t] \in {"V_128", "V_130"}})

\* C2: on a semaphore created with count n, the P calls that have returned
\* never exceed n plus the V calls that have started, and the count never
\* goes below 0: it is exactly n plus the units given minus the units
\* taken.  (For n = UINT_MAX no P count can exceed n; there the count
\* reaches 0 only by the overflow that V's assertion stops.)
C2_SemaphoreCount ==
    /\ sem_init.hi = 0 =>
        /\ p_returned <= sem_init.lo + v_started
        /\ P_taken <= sem_init.lo + V_given
        /\ sem_count = U32(sem_init.lo + V_given - P_taken)
    /\ (sem_init = UINT_MAX /\ U32IsZero(sem_count)) => panicked.at = "V:131"

\* C2's case: on a semaphore created with count 0 every unit given by a V
\* has been taken by a P that returned, and a further P waits.
C2_Witness ==
    /\ sem_init = U32(0)
    /\ p_returned >= 1
    /\ p_returned = v_started
    /\ U32IsZero(sem_count)
    /\ sem_wchan # {}

\* C3: after its owner released it the lock is free for everybody: while
\* every thread pairs lock_acquire with a later lock_release, no
\* lock_acquire fails the assertion of line 206.
C3_ReacquireAfterRelease == ~misused => panicked.at # "lock_acquire:206"

\* C4: with thread identity available, a lock held by thread a stays taken
\* and owned by a until a releases it: a lock_release by another thread
\* fails its assertion and changes nothing.
C4_NonOwnerReleaseFatal ==
    \A a \in Threads :
        (CURCPU_EXISTS /\ holding[a]) => (lock_is_taken(flagLocked) /\ owner = a)

\* C5: with thread identity available, a thread that holds the lock and
\* calls lock_acquire again fails the assertion of line 206: it never gets
\* past it.
C5_ReentrantAcquireFatal ==
    \A t \in Threads :
        (CURCPU_EXISTS /\ holding[t] /\ ret[t] = "top") =>
            pc[t] \notin {"la_210", "la_213", "la_215", "la_216", "la_218",
                          "la_219", "la_220", "la_238"}

\* C6: at any instant lock_do_i_hold is true for at most one thread, and
\* with thread identity available only for the thread that holds the lock.
C6_OnlyHolderDoesHold ==
    /\ Cardinality({t \in Running : lock_do_i_hold(t)}) <= 1
    /\ \A t \in Running : (CURCPU_EXISTS /\ lock_do_i_hold(t)) => holding[t]

\* C7: a thread that called cv_wait holding the lock, is asleep in it, and
\* for which cv_signal or cv_broadcast has been called, returns from cv_wait
\* holding the lock, unless another thread has the lock at that time or the
\* kernel panics.
C7_WaitReturnsWithLock ==
    \A t \in CvThreads :
        (/\ ~misused /\ pc[t] = "cw_356"
         /\ \E w \in CvThreads : pc[w] \in {"cs_375", "cb_393"})
            ~> \/ pc[t] = "idle" /\ holding[t]
               \/ \E u \in CvThreads \ {t} : holding[u]
               \/ panicked # NoPanic

\* C8: thread a, which held the lock, waits on the condition variable as
\* the only sleeper; thread b, holding the lock, has made the predicate
\* true and has called cv_signal.  Then a is woken: it does not stay on the
\* wait channel.
C8_NoLostSignal ==
    \A a, b \in CvThreads :
        (/\ ~misused /\ pc[a] = "cw_356" /\ cvWchan = {a}
         /\ x = 1 /\ holding[b] /\ pc[b] = "cs_375")
            ~> (a \notin cvWchan)

\* C9: a thread that was asleep on the channel when cv_broadcast was called
\* (by threads that use the lock as they should) is woken by it, and the
\* wake of cv_signal takes at most one thread off the channel and adds none.
C9_BroadcastAllSignalOne ==
    /\ \A w, t \in CvThreads :
        (/\ ~misused /\ pc[w] = "cb_393"
         /\ t \in sigSeen[w].queued /\ t \in cvWchan)
            ~> (t \notin cvWchan)
    /\ [][\A w \in CvThreads :
            (pc[w] = "cs_377" /\ pc'[w] = "cs_380") =>
                (cvWchan' \subseteq cvWchan /\ Cardinality(cvWchan \ cvWchan') <= 1)]_vars

Sleepers(o) ==
    CASE o = "sem" -> sem_wchan
      [] o = "lock" -> lockWchan
      [] o = "cv" -> cvWchan

C12_DestroyHeldLockFatal ==
    (~misused /\ heap["lock"].handle = "gone") => Holders = {}

\* C13: a create that returned NULL has left nothing allocated (struct,
\* name copy and wait channel are each not allocated or freed again), and a
\* create that returned an object has all three allocated, with the
\* wait-channel field referring to the new channel and the name field to
\* the name copy.
C13_CreateAllOrNothing ==
    \A o \in Objects :
        /\ heap[o].handle = "NULL" =>
              (heap[o].obj # "live" /\ heap[o].str # "live" /\ heap[o].wc # "live")
        /\ heap[o].handle = "obj" => heap[o] = MadeObject

\* C14: a thread that called P, lock_acquire or cv_wait from an interrupt
\* handler gets no further than the interrupt-context assertion at the
\* start of the operation: it does not get to where the operation has
\* changed a primitive (in cv_wait: has released the lock) or goes to sleep.
C14_NoBlockingInInterrupt ==
    \A t \in Threads :
        (~misused /\ in_interrupt[t]) =>
            /\ pc[t] \notin {"P_102", "P_103", "P_116", "P_120"}
            /\ pc[t] \notin {"la_204", "la_210", "la_213", "la_215", "la_216",
                              "la_218", "la_219", "la_220", "la_238"}
            /\ pc[t] \notin {"cw_355", "cw_356", "cw_358"}

\* C15: when threads are asleep in P and a V has been called, a further P
\* returns (unless the kernel panics); and when the only two calls are the
\* P of a, asleep on a semaphore created with count 0, and the V of b, the
\* P of a returns with the count back at 0.
C15_SemWakeupProgress ==
    /\ \A n \in 0..MaxCalls :
          (p_returned = n /\ sem_wchan # {} /\ \E w \in Threads : pc[w] = "V_128")
             ~> (p_returned > n \/ panicked # NoPanic)
    /\ \A a \in Threads :
          (/\ sem_init = U32(0) /\ calls = 2
           /\ pc[a] = "P_116" /\ a \in sem_wchan
           /\ \E b \in Threads : pc[b] = "V_128")
             ~> \/ pc[a] = "idle" /\ p_returned = 1 /\ U32IsZero(sem_count)
                \/ calls > 2

\* C15's case: a was asleep in P on a semaphore created with count 0, and
\* the V of b, the only other call, has woken it.
C15_Witness ==
    /\ sem_init = U32(0)
    /\ calls = 2
    /\ \E a, b \in Threads :
          a # b /\ pc[a] = "P_116" /\ a \notin sem_wchan /\ pc[b] = "V_134"

\* The places of lock_acquire between finding the lock taken and waking up.
GoingToSleep == {"la_215", "la_216", "la_218", "la_219"}

C17_BootstrapDoIHold ==
    (~CURCPU_EXISTS /\ holding[BootThread] /\ owner = NULL) =>
        ~lock_do_i_hold(BootThread)

\* C18: a thread about to go to sleep on a primitive's wait channel, to
\* wake threads on it, or to change the primitive's count, flag or owner
\* holds that primitive's spinlock.
C18_WchanUnderSpinlock ==
    \A t \in Threads :
        ~misused =>
          /\ pc[t] \in {"P_103", "V_130"} => sem_lock = t
          /\ pc[t] \in {"la_213", "la_218", "lr_255", "lr_262"} => lockProtect = t
          /\ pc[t] \in {"cw_355", "cs_377", "cb_395"} => cvLock = t

Woken == {t \in Threads : pc[t] = "P_116" /\ t \notin sem_wchan}

\* C20: whenever the semaphore's spinlock is free and a thread is asleep on
\* the semaphore's wait channel, the count is at most the number of woken
\* threads that have not yet re-checked it; so with no such thread, a
\* positive count means an empty wait channel.
C20_NoStrandedWaiter ==
    (SpinFree(sem_lock) /\ sem_wchan # {}) =>
        (sem_count.hi = 0 /\ sem_count.lo <= Cardinality(Woken))

\* C20's case: the spinlock is free, a thread is asleep on the channel and
\* the count is positive, a unit for a thread that V has woken.
C20_Witness ==
    /\ SpinFree(sem_lock)
    /\ sem_wchan # {}
    /\ ~U32IsZero(sem_count)
    /\ Woken # {}

====
